---- MODULE Spec2Model ----
(***************************************************************************)
(* Model of the OurLoRa driver (src/firmware/ourlora.h): the register      *)
(* access layer, the chip as seen through the SPI bus, and the driver's    *)
(* operations.  Every SPI byte and every pin change the driver makes is    *)
(* recorded: in `log` and `txns`, and for the polling loop of send_a_msg   *)
(* in `loop`; CallLog and CallTxns are the whole record of a call, so that *)
(* claims about bus traffic are claims about them.                         *)
(***************************************************************************)
EXTENDS Integers, Sequences, FiniteSets, TLC

VARIABLES
  regs,         \* chip configuration registers as last written since the last reset (-1: not written)
  irqFlags,     \* chip interrupt-flags register (REG_IRQ_FLAGS), write-1-to-clear
  chip,         \* values the chip itself drives: version, lna, rxNb, rxAddr, rssi, snr, seed
  cs,           \* level of the device-select line LORA_CS_PIN (0 = LOW, 1 = HIGH)
  log,          \* bus and pin events of the current / last API call; of a send_a_msg,
                \* those of lines 235-255, before its polling loop
  txns,         \* register transactions of the current / last API call; of a send_a_msg,
                \* those of lines 235-255
  loop,         \* what the current / last send_a_msg did from line 259 on: the events and
                \* transactions of each pass of its polling loop, then those of lines
                \* 268-271, in order, equal consecutive parts being counted: a sequence of
                \* [log, txns, n].  CallLog and CallTxns unfold it
  clock,        \* millis() as the running send_a_msg reads it, an unsigned long of 32 bits
  lastRssi,     \* _lastRssi
  lastSnr,      \* _lastSnr
  currentFreq,  \* _currentFreq
  pc,           \* position of the caller: "idle"; in setup_ourlora "init_reset" (in the
                \* delay of line 151), "init_settle" (line 153), "init_sleep" (line 167);
                \* in send_a_msg "tx_poll" (line 259), "tx_delay" (line 264), "tx_ret"
                \* (the return of line 262 or 273)
  startTime,    \* send_a_msg's local startTime
  elapsed,      \* milliseconds really elapsed since startTime was taken
  polls,        \* flag reads made by the polling loop of the current send_a_msg
  sawDone,      \* some flag read of the current send_a_msg showed TX-done
  pollLog,      \* bus events since the previous flag read of the polling loop, this read included
  op,           \* name of the current / last API call
  arg,          \* its arguments
  ret,          \* its return value: RetBool(b), RetInt(n), VoidReturn for a void function,
                \* NoReturn while it runs and before any call
  buffer,       \* stores into the caller's buffer made by the last check_for_msg: <<index, byte>>
  pre,          \* driver and chip state at entry of the current / last API call
  inp,          \* the inputs of the scenario under check
  calls         \* API calls made so far

vars == <<regs, irqFlags, chip, cs, log, txns, loop, clock, lastRssi, lastSnr, currentFreq,
          pc, startTime, elapsed, polls, sawDone, pollLog, op, arg, ret, buffer, pre,
          inp, calls>>

----------------------------------------------------------------------------
(* Pins, register addresses, modes and flags: lines 24-77.                 *)

LORA_CS_PIN == 5
LORA_RST_PIN == 2
LORA_DIO0_PIN == 4

REG_FIFO == 0
REG_OP_MODE == 1
REG_FRF_MSB == 6
REG_FRF_MID == 7
REG_FRF_LSB == 8
REG_PA_CONFIG == 9
REG_LNA == 12
REG_FIFO_ADDR_PTR == 13
REG_FIFO_TX_BASE_ADDR == 14
REG_FIFO_RX_BASE_ADDR == 15
REG_FIFO_RX_CURRENT_ADDR == 16
REG_IRQ_FLAGS == 18
REG_RX_NB_BYTES == 19
REG_PKT_RSSI_VALUE == 26
REG_PKT_SNR_VALUE == 25
REG_MODEM_CONFIG_1 == 29
REG_MODEM_CONFIG_2 == 30
REG_PREAMBLE_MSB == 32
REG_PREAMBLE_LSB == 33
REG_PAYLOAD_LENGTH == 34
REG_MODEM_CONFIG_3 == 38
REG_SYNC_WORD == 57
REG_VERSION == 66
REG_PA_DAC == 77

MODE_LONG_RANGE_MODE == 128
MODE_SLEEP == 0
MODE_STDBY == 1
MODE_TX == 3
MODE_RX_CONTINUOUS == 5

IRQ_TX_DONE_MASK == 8
IRQ_RX_DONE_MASK == 64
IRQ_PAYLOAD_CRC_ERROR == 32

PA_BOOST == 128

INPUT == 0
OUTPUT == 1
LOW == 0
HIGH == 1

\* uint8_t: 0 .. UINT8_MAX
UINT8_MAX == 255
Byte == 0 .. UINT8_MAX

\* unsigned long (millis, startTime) is 32 bits wide: 2^32 = 65536 * 65536 does not
\* fit the checker's integers, so the clock is kept as a pair <<high half, low half>>
HALF == 65536

----------------------------------------------------------------------------
(* Bit operations on non-negative integers.                                *)

RECURSIVE BitAnd(_, _)
BitAnd(a, b) ==
  IF a = 0 \/ b = 0 THEN 0
  ELSE (IF a % 2 = 1 /\ b % 2 = 1 THEN 1 ELSE 0) + 2 * BitAnd(a \div 2, b \div 2)

RECURSIVE BitOr(_, _)
BitOr(a, b) ==
  IF a = 0 THEN b
  ELSE IF b = 0 THEN a
  ELSE (IF a % 2 = 1 \/ b % 2 = 1 THEN 1 ELSE 0) + 2 * BitOr(a \div 2, b \div 2)

\* (uint8_t)x for an integer x
U8(x) == x % (UINT8_MAX + 1)

\* (int8_t)x for a byte x
I8(x) == IF x > 127 THEN x - (UINT8_MAX + 1) ELSE x

\* C++ integer division, which truncates toward zero
CDiv(a, b) == IF a >= 0 THEN a \div b ELSE -((-a) \div b)

----------------------------------------------------------------------------
(* 32-bit unsigned arithmetic on <<high half, low half>> pairs.            *)

U32(hi, lo) == <<hi % HALF, lo % HALF>>

\* a + k (mod 2^32), for 0 <= k < HALF
Add32(a, k) == U32(a[1] + ((a[2] + k) \div HALF), a[2] + k)

\* a - b (mod 2^32): the unsigned subtraction millis() - startTime of line 260
Sub32(a, b) ==
  IF a[2] >= b[2] THEN U32(a[1] - b[1] + HALF, a[2] - b[2])
  ELSE U32(a[1] - b[1] - 1 + HALF, a[2] - b[2] + HALF)

\* a > k, for 0 <= k < HALF
Gt32(a, k) == a[1] > 0 \/ a[2] > k

Zero32 == <<0, 0>>

----------------------------------------------------------------------------
(* The bus.  A machine m is the part of the state a register access can    *)
(* change: [regs, irq, cs, log, txns].                                     *)

\* registers that hold what the driver wrote into them
CfgRegs == {REG_OP_MODE, REG_FRF_MSB, REG_FRF_MID, REG_FRF_LSB, REG_PA_CONFIG, REG_LNA,
            REG_FIFO_ADDR_PTR, REG_FIFO_TX_BASE_ADDR, REG_FIFO_RX_BASE_ADDR,
            REG_MODEM_CONFIG_1, REG_MODEM_CONFIG_2, REG_MODEM_CONFIG_3,
            REG_PREAMBLE_MSB, REG_PREAMBLE_LSB, REG_PAYLOAD_LENGTH, REG_SYNC_WORD,
            REG_PA_DAC}

NotWritten == 0 - 1

\* API calls one behaviour makes
MaxCalls == 4

\* the value an API call returned: a bool, an int, nothing (a void function), or
\* nothing yet.  Values of different kinds are records with different fields, so
\* that any two of them can be compared
RetBool(b) == [bool |-> b]
RetInt(n) == [int |-> n]
VoidReturn == [void |-> TRUE]
NoReturn == [none |-> TRUE]

Ev(k, a, b) == [k |-> k, a |-> a, b |-> b]
\* digitalWrite(pin, level)
PinEv(pin, level) == Ev("pin", pin, level)
\* SPI.transfer(out) returning in
XferEv(out, in) == Ev("xfer", out, in)
\* delay(ms)
DelayEv(ms) == Ev("delay", ms, 0)
\* buffer[i] = v
StoreEv(i, v) == Ev("store", i, v)
\* pinMode(pin, mode)
PinModeEv(pin, mode) == Ev("mode", pin, mode)

\* the byte the chip's FIFO holds at address a: the received packet
RxByte(a) == (chip.seed + 3 * a) % (UINT8_MAX + 1)

\* the FIFO address pointer, which the chip advances on every FIFO access
FifoPtr(m) == IF m.regs[REG_FIFO_ADDR_PTR] = NotWritten THEN 0 ELSE m.regs[REG_FIFO_ADDR_PTR]

\* the value the chip answers for a read of register a; a read of the FIFO gives
\* the byte at the FIFO pointer
ChipRead(m, a) ==
  CASE a = REG_FIFO -> RxByte(FifoPtr(m))
    [] a = REG_IRQ_FLAGS -> m.irq
    [] a = REG_VERSION -> chip.version
    [] a = REG_RX_NB_BYTES -> chip.rxNb
    [] a = REG_FIFO_RX_CURRENT_ADDR -> chip.rxAddr
    [] a = REG_PKT_RSSI_VALUE -> chip.rssi
    [] a = REG_PKT_SNR_VALUE -> chip.snr
    [] a = REG_LNA -> IF m.regs[REG_LNA] = NotWritten THEN chip.lna ELSE m.regs[REG_LNA]
    [] OTHER -> IF a \in CfgRegs /\ m.regs[a] # NotWritten THEN m.regs[a] ELSE 0

\* a chip whose flags register keeps what is written to it, as a plain register does
ChipWritePlainFlags(m, a, v) ==
  CASE a = REG_FIFO -> [m EXCEPT !.regs[REG_FIFO_ADDR_PTR] = U8(FifoPtr(m) + 1)]
    [] a = REG_IRQ_FLAGS -> [m EXCEPT !.irq = v]
    [] a \in CfgRegs -> [m EXCEPT !.regs[a] = v]
    [] OTHER -> m

\* the chip after a write of v to register a: a flag is cleared by writing 1 to it,
\* a byte written to the FIFO advances the FIFO pointer
ChipWrite(m, a, v) ==
  CASE a = REG_FIFO -> [m EXCEPT !.regs[REG_FIFO_ADDR_PTR] = U8(FifoPtr(m) + 1)]
    [] a = REG_IRQ_FLAGS -> [m EXCEPT !.irq = BitAnd(m.irq, UINT8_MAX - v)]
    [] a \in CfgRegs -> [m EXCEPT !.regs[a] = v]
    [] OTHER -> m

\* the chip after a pulse on its reset line: no register written, no flag pending
ChipReset(m) == [m EXCEPT !.regs = [a \in CfgRegs |-> NotWritten], !.irq = 0]

\* digitalWrite(pin, level): a falling reset line resets the chip
digitalWrite(m, pin, level) ==
  LET m1 == [m EXCEPT !.log = Append(@, PinEv(pin, level)),
                      !.cs = IF pin = LORA_CS_PIN THEN level ELSE @]
  IN  IF pin = LORA_RST_PIN /\ level = LOW THEN ChipReset(m1) ELSE m1

\* delay(ms)
Delay(m, ms) == [m EXCEPT !.log = Append(@, DelayEv(ms))]

\* a register transaction as the chip sees it: a write carries the bytes sent, a
\* read the bytes received
RegRead(a, v) == [rw |-> "R", addr |-> a, data |-> <<v>>]
RegWrite(a, v) == [rw |-> "W", addr |-> a, data |-> <<v>>]

\* the register the chip takes an address byte to name: its low seven bits
\* (address & 0x7F), the high bit telling a write from a read
RegOf(address) == address % 128

\* the chip after a read of register a: a read of the FIFO advances the FIFO pointer
ChipAfterRead(m, a) ==
  IF a = REG_FIFO THEN [m EXCEPT !.regs[REG_FIFO_ADDR_PTR] = U8(FifoPtr(m) + 1)] ELSE m

\* lines 97-102: select, the address byte with the high bit set, the value, deselect;
\* the chip writes the register the low seven bits of the address name
write_lora_register(m, address, value) ==
  [ChipWrite(m, RegOf(address), value) EXCEPT
     !.cs = HIGH,
     !.log = @ \o <<PinEv(LORA_CS_PIN, LOW), XferEv(BitOr(address, 128), 0),
                    XferEv(value, 0), PinEv(LORA_CS_PIN, HIGH)>>,
     !.txns = Append(@, RegWrite(RegOf(address), value))]

\* lines 113-119: select, the address byte with the high bit clear, a zero byte whose
\* reply is the value of the register these seven bits name, deselect.  The machine
\* after it; the value is LastValue of it
read_lora_register(m, address) ==
  [ChipAfterRead(m, RegOf(address)) EXCEPT
     !.cs = HIGH,
     !.log = @ \o <<PinEv(LORA_CS_PIN, LOW), XferEv(BitAnd(address, 127), 0),
                    XferEv(0, ChipRead(m, RegOf(address))), PinEv(LORA_CS_PIN, HIGH)>>,
     !.txns = Append(@, RegRead(RegOf(address), ChipRead(m, RegOf(address))))]

\* the value the last register read returned
LastValue(m) == m.txns[Len(m.txns)].data[1]

\* a list of register writes <<address, value>>, in order
RECURSIVE WriteAll(_, _)
WriteAll(m, ws) ==
  IF ws = <<>> THEN m
  ELSE WriteAll(write_lora_register(m, ws[1][1], ws[1][2]), Tail(ws))

\* the machine made of the current state, with an empty log
Machine == [regs |-> regs, irq |-> irqFlags, cs |-> cs, log |-> <<>>, txns |-> <<>>]

\* the state a call found: what the claims compare the state after it with
Snapshot == [regs |-> regs, irq |-> irqFlags, lastRssi |-> lastRssi, lastSnr |-> lastSnr,
             currentFreq |-> currentFreq, chip |-> chip]

\* the machine's part of the next state
Commit(m) ==
  /\ regs' = m.regs
  /\ irqFlags' = m.irq
  /\ cs' = m.cs
  /\ log' = m.log
  /\ txns' = m.txns

----------------------------------------------------------------------------
(* setup_ourlora: lines 140-216.                                           *)

\* the n low bits of x, least significant first, for 0 <= x < 2^31
Bits(x, n) == [i \in 1 .. n |-> IF i > 31 THEN 0 ELSE (x \div (2 ^ (i - 1))) % 2]

\* the value of the n bits of b that start at bit k (bit 0 is b[1])
RECURSIVE Field(_, _, _)
Field(b, k, n) == IF n = 0 THEN 0 ELSE b[k + 1] + 2 * Field(b, k + 1, n - 1)

\* b << k in a width of Len(b) bits: the bits shifted beyond the width are lost
ShiftLeft(b, k) == [i \in 1 .. Len(b) |-> IF i <= k THEN 0 ELSE b[i - k]]

\* the 64 bits b as 11 digits of 6 bits, least significant first
Digits(b) == [j \in 1 .. 11 |-> Field(b \o <<0, 0>>, 6 * (j - 1), 6)]

\* g / d for digits g, by long division from the most significant digit: j is the
\* digit to take next, r the remainder so far; for d < 2^25
RECURSIVE DivDigits(_, _, _, _)
DivDigits(g, d, j, r) ==
  IF j = 0 THEN <<>>
  ELSE LET r2 == 64 * r + g[j]
       IN  Append(DivDigits(g, d, j - 1, r2 % d), r2 \div d)

\* the low n bits of the number of digits g
BitsOf(g, n) == [i \in 1 .. n |-> (g[((i - 1) \div 6) + 1] \div (2 ^ ((i - 1) % 6))) % 2]

\* b / d on 64 bits, the low 32 bits of the quotient: the conversion to uint32_t
Div64(b, d) == BitsOf(DivDigits(Digits(b), d, 11, 0), 32)

\* the same computation without the cast to uint64_t: a 32-bit product and shift
FrfNoWiden(frequency_mhz) ==
  Div64(ShiftLeft(Bits(frequency_mhz * 1000000, 32), 19) \o [i \in 1 .. 32 |-> 0], 32000000)

\* uint32_t frf = ((uint64_t)frequency_mhz * 1000000 << 19) / 32000000, as 32 bits;
\* for 0 <= frequency_mhz <= 2147 (the product then fits the checker's integers)
Frf(frequency_mhz) ==
  Div64(ShiftLeft(Bits(frequency_mhz * 1000000, 64), 19), 32000000)

\* the register writes of lines 172-174: (uint8_t)(frf >> 16), (frf >> 8), (frf >> 0)
FrfWrites(frf) ==
  << <<REG_FRF_MSB, Field(frf, 16, 8)>>,
     <<REG_FRF_MID, Field(frf, 8, 8)>>,
     <<REG_FRF_LSB, Field(frf, 0, 8)>> >>

\* lines 144-151: the pins, then the reset line driven low and the first wait
ResetAssert(m) ==
  LET m0 == [m EXCEPT !.log = @ \o <<PinModeEv(LORA_CS_PIN, OUTPUT),
                                      PinModeEv(LORA_RST_PIN, OUTPUT),
                                      PinModeEv(LORA_DIO0_PIN, INPUT)>>]
      m1 == digitalWrite(m0, LORA_CS_PIN, HIGH)
      m2 == digitalWrite(m1, LORA_RST_PIN, LOW)
  IN  Delay(m2, 10)

\* lines 152-153: the reset line released and the second wait
ResetRelease(m) == Delay(digitalWrite(m, LORA_RST_PIN, HIGH), 10)

\* lines 166-167: the chip put to sleep and the third wait
EnterSleep(m) ==
  Delay(write_lora_register(m, REG_OP_MODE, BitOr(MODE_LONG_RANGE_MODE, MODE_SLEEP)), 10)

\* lines 171-209 with the return to standby made right after the frequency is set
ConfigureStandbyEarly(m, frequency_mhz) ==
  LET m3 == WriteAll(m, FrfWrites(Frf(frequency_mhz)))
      m3b == write_lora_register(m3, REG_OP_MODE, BitOr(MODE_LONG_RANGE_MODE, MODE_STDBY))
      m4 == WriteAll(m3b, << <<REG_FIFO_TX_BASE_ADDR, 0>>, <<REG_FIFO_RX_BASE_ADDR, 0>> >>)
      m5 == read_lora_register(m4, REG_LNA)
      m6 == write_lora_register(m5, REG_LNA, BitOr(LastValue(m5), 3))
      m7 == WriteAll(m6, << <<REG_MODEM_CONFIG_1, 114>>, <<REG_MODEM_CONFIG_2, 116>>,
                            <<REG_MODEM_CONFIG_3, 4>>, <<REG_PREAMBLE_MSB, 0>>,
                            <<REG_PREAMBLE_LSB, 8>>, <<REG_SYNC_WORD, 18>>,
                            <<REG_PA_CONFIG, BitOr(PA_BOOST, 15)>>, <<REG_PA_DAC, 135>> >>)
  IN  Delay(m7, 10)

\* lines 171-209: the configuration, the return to standby and the last wait
Configure(m, frequency_mhz) ==
  LET m3 == WriteAll(m, FrfWrites(Frf(frequency_mhz)))
      m4 == WriteAll(m3, << <<REG_FIFO_TX_BASE_ADDR, 0>>, <<REG_FIFO_RX_BASE_ADDR, 0>> >>)
      m5 == read_lora_register(m4, REG_LNA)
      m6 == write_lora_register(m5, REG_LNA, BitOr(LastValue(m5), 3))
      m7 == WriteAll(m6, << <<REG_MODEM_CONFIG_1, 114>>, <<REG_MODEM_CONFIG_2, 116>>,
                            <<REG_MODEM_CONFIG_3, 4>>, <<REG_PREAMBLE_MSB, 0>>,
                            <<REG_PREAMBLE_LSB, 8>>, <<REG_SYNC_WORD, 18>>,
                            <<REG_PA_CONFIG, BitOr(PA_BOOST, 15)>>, <<REG_PA_DAC, 135>>,
                            <<REG_OP_MODE, BitOr(MODE_LONG_RANGE_MODE, MODE_STDBY)>> >>)
  IN  Delay(m7, 10)

\* version != 0x12 of line 160
VersionMismatchLoose(version) == version # 18 /\ version # 0

VersionMismatch(version) == version # 18

\* the state of send_a_msg's polling loop
txVars == <<pc, startTime, elapsed, polls, sawDone, pollLog>>

\* what every API call records when it starts
Enter(name, a) ==
  /\ pc = "idle"
  /\ calls < MaxCalls
  /\ calls' = calls + 1
  /\ op' = name
  /\ arg' = a
  /\ pre' = Snapshot
  /\ loop' = <<>>

\* the machine that goes on with the log l and the transactions ts
MachineWith(l, ts) == [Machine EXCEPT !.log = l, !.txns = ts]

\* what a step of a running setup_ourlora leaves alone
SetupFrame ==
  /\ UNCHANGED <<chip, clock, lastRssi, lastSnr, startTime, elapsed, polls, sawDone,
                 pollLog, loop, op, arg, buffer, pre, inp, calls>>

\* lines 140-151: the call, up to its first wait.  delay() lets the rest of the
\* system run: what the chip does during a wait is a step between two steps of the
\* call
setup_ourlora(frequency_mhz) ==
  /\ Enter("setup_ourlora", <<frequency_mhz>>)
  /\ Commit(ResetAssert(Machine))
  /\ pc' = "init_reset"
  /\ ret' = NoReturn
  /\ UNCHANGED <<chip, lastRssi, lastSnr, currentFreq, buffer, inp, clock, startTime,
                 elapsed, polls, sawDone, pollLog>>

\* lines 152-153: from the first wait to the second
SetupRelease ==
  /\ pc = "init_reset"
  /\ Commit(ResetRelease(MachineWith(log, txns)))
  /\ pc' = "init_settle"
  /\ UNCHANGED <<currentFreq, ret>>
  /\ SetupFrame

\* lines 156-167: the identity check, then either the return of line 162 or the
\* way to the third wait
SetupIdentify ==
  /\ pc = "init_settle"
  /\ LET m == read_lora_register(MachineWith(log, txns), REG_VERSION)
     IN  IF VersionMismatch(LastValue(m))
           THEN /\ Commit(m)
                /\ ret' = RetBool(FALSE)
                /\ pc' = "idle"
           ELSE /\ Commit(EnterSleep(m))
                /\ pc' = "init_sleep"
                /\ UNCHANGED ret
  /\ UNCHANGED currentFreq
  /\ SetupFrame

\* lines 171-215: the configuration, the fourth wait and the return.  Nothing of
\* the call follows the fourth wait but its return, so that what the chip does
\* during that wait is a step after this one
SetupConfigure ==
  /\ pc = "init_sleep"
  /\ Commit(Configure(MachineWith(log, txns), arg[1]))
  /\ currentFreq' = arg[1]
  /\ ret' = RetBool(TRUE)
  /\ pc' = "idle"
  /\ SetupFrame

\* the steps of a running setup_ourlora
SetupStep == SetupRelease \/ SetupIdentify \/ SetupConfigure

----------------------------------------------------------------------------
(* send_a_msg: lines 233-274.                                              *)

\* lines 244-249: one select frame carrying the address byte and the payload bytes
FifoWrite(m, bytes) ==
  [m EXCEPT
     !.cs = HIGH,
     !.regs[REG_FIFO_ADDR_PTR] = U8(FifoPtr(m) + Len(bytes)),
     !.log = @ \o <<PinEv(LORA_CS_PIN, LOW), XferEv(BitOr(REG_FIFO, 128), 0)>>
               \o [i \in 1 .. Len(bytes) |-> XferEv(bytes[i], 0)]
               \o <<PinEv(LORA_CS_PIN, HIGH)>>,
     !.txns = Append(@, [rw |-> "W", addr |-> REG_FIFO, data |-> bytes])]

\* lines 235-255 with the transmission started before the payload length is set
SendPreambleStartsEarly(m, message, length) ==
  LET m1 == WriteAll(m, << <<REG_OP_MODE, BitOr(MODE_LONG_RANGE_MODE, MODE_STDBY)>>,
                           <<REG_IRQ_FLAGS, 255>>,
                           <<REG_FIFO_ADDR_PTR, 0>> >>)
      m2 == FifoWrite(m1, SubSeq(message, 1, length))
  IN  WriteAll(m2, << <<REG_OP_MODE, BitOr(MODE_LONG_RANGE_MODE, MODE_TX)>>,
                      <<REG_PAYLOAD_LENGTH, length>> >>)

\* lines 235-255: everything send_a_msg does before it starts polling
SendPreamble(m, message, length) ==
  LET m1 == WriteAll(m, << <<REG_OP_MODE, BitOr(MODE_LONG_RANGE_MODE, MODE_STDBY)>>,
                           <<REG_IRQ_FLAGS, 255>>,
                           <<REG_FIFO_ADDR_PTR, 0>> >>)
      m2 == FifoWrite(m1, SubSeq(message, 1, length))
  IN  WriteAll(m2, << <<REG_PAYLOAD_LENGTH, length>>,
                      <<REG_OP_MODE, BitOr(MODE_LONG_RANGE_MODE, MODE_TX)>> >>)

\* lines 268-271 returning to continuous receive instead of standby
SendEpilogueResumesReceive(m) ==
  WriteAll(m, << <<REG_IRQ_FLAGS, IRQ_TX_DONE_MASK>>,
                 <<REG_OP_MODE, BitOr(MODE_LONG_RANGE_MODE, MODE_RX_CONTINUOUS)>> >>)

\* lines 268-271 without the return to standby
SendEpilogueStaysInTransmit(m) ==
  WriteAll(m, << <<REG_IRQ_FLAGS, IRQ_TX_DONE_MASK>> >>)

\* lines 268-271: what send_a_msg does once TX-done has been read
SendEpilogue(m) ==
  WriteAll(m, << <<REG_IRQ_FLAGS, IRQ_TX_DONE_MASK>>,
                 <<REG_OP_MODE, BitOr(MODE_LONG_RANGE_MODE, MODE_STDBY)>> >>)

\* line 260 without a timeout
TimedOutNever(now, start) == FALSE

\* millis() - startTime > 2000 of line 260, a comparison of unsigned longs
TimedOutAt2000(now, start) == Gt32(Sub32(now, start), 1999)

TimedOut(now, start) == Gt32(Sub32(now, start), 2000)

\* flags & mask of lines 259, 303 and 311
HasFlag(flags, mask) == BitAnd(flags, mask) # 0

\* lines 233-258: the call, up to the first evaluation of the loop condition
send_a_msg(now, message, length) ==
  /\ Enter("send_a_msg", <<message, length>>)
  /\ Commit(SendPreamble(Machine, message, length))
  /\ clock' = now
  /\ startTime' = now
  /\ pc' = "tx_poll"
  /\ elapsed' = 0
  /\ polls' = 0
  /\ sawDone' = FALSE
  /\ pollLog' = <<>>
  /\ ret' = NoReturn
  /\ UNCHANGED <<chip, lastRssi, lastSnr, currentFreq, buffer, inp>>

\* the record q of the call's loop with one more part, of the events l and the
\* transactions ts: counted with the part before it when it repeats it.  A part is
\* one pass of the loop, the read of line 259 and the delay of line 264 that
\* follows it, or the end of the call
Record(q, l, ts) ==
  IF q # <<>> /\ q[Len(q)].log = l /\ q[Len(q)].txns = ts
    THEN [q EXCEPT ![Len(q)].n = @ + 1]
    ELSE Append(q, [log |-> l, txns |-> ts, n |-> 1])

\* n times the sequence q
Repeat(q, n) == [i \in 1 .. n * Len(q) |-> q[((i - 1) % Len(q)) + 1]]

\* the events, and the transactions, of the parts of q, in order
RECURSIVE LoopLog(_)
LoopLog(q) ==
  IF q = <<>> THEN <<>>
  ELSE LoopLog(SubSeq(q, 1, Len(q) - 1)) \o Repeat(q[Len(q)].log, q[Len(q)].n)

RECURSIVE LoopTxns(_)
LoopTxns(q) ==
  IF q = <<>> THEN <<>>
  ELSE LoopTxns(SubSeq(q, 1, Len(q) - 1)) \o Repeat(q[Len(q)].txns, q[Len(q)].n)

\* all the bus and pin events of the current / last API call, in order
CallLog == log \o LoopLog(loop)

\* all its register transactions, in order
CallTxns == txns \o LoopTxns(loop)

\* the number of transactions of the parts of q
RECURSIVE LoopCount(_)
LoopCount(q) ==
  IF q = <<>> THEN 0
  ELSE LoopCount(SubSeq(q, 1, Len(q) - 1)) + q[Len(q)].n * Len(q[Len(q)].txns)

\* Len(CallTxns), without unfolding the loop
CallTxnCount == Len(txns) + LoopCount(loop)

\* lines 259-263 and 267-273: one evaluation of the loop condition, then either the
\* end of the loop and of the call, the timeout, or the way to delay(1)
TxPoll ==
  /\ pc = "tx_poll"
  /\ LET r == read_lora_register(MachineWith(pollLog, <<>>), REG_IRQ_FLAGS)
         done == HasFlag(LastValue(r), IRQ_TX_DONE_MASK)
         read == SubSeq(r.log, Len(pollLog) + 1, Len(r.log))
         e == SendEpilogue(MachineWith(<<>>, <<>>))
     IN  /\ pollLog' = r.log
         /\ polls' = polls + 1
         /\ sawDone' = (sawDone \/ done)
         /\ IF done
              THEN /\ loop' = Record(Record(loop, read, r.txns), e.log, e.txns)
                   /\ regs' = e.regs
                   /\ irqFlags' = e.irq
                   /\ cs' = e.cs
                   /\ ret' = RetBool(TRUE)
                   /\ pc' = "tx_ret"
            ELSE IF TimedOut(clock, startTime)
              THEN /\ loop' = Record(loop, read, r.txns)
                   /\ ret' = RetBool(FALSE)
                   /\ pc' = "tx_ret"
                   /\ UNCHANGED <<regs, irqFlags, cs>>
            ELSE /\ loop' = Record(loop, read, r.txns)
                 /\ pc' = "tx_delay"
                 /\ UNCHANGED <<regs, irqFlags, cs, ret>>
  /\ UNCHANGED <<chip, log, txns, lastRssi, lastSnr, currentFreq, clock, startTime,
                 elapsed, op, arg, buffer, pre, inp, calls>>

\* the return of line 262 or 273: the call's locals, and what was observed of its
\* loop, end with it
TxReturn ==
  /\ pc = "tx_ret"
  /\ pc' = "idle"
  /\ clock' = Zero32
  /\ startTime' = Zero32
  /\ elapsed' = 0
  /\ polls' = 0
  /\ sawDone' = FALSE
  /\ pollLog' = <<>>
  /\ UNCHANGED <<regs, irqFlags, chip, cs, log, txns, loop, lastRssi, lastSnr,
                 currentFreq, op, arg, ret, buffer, pre, inp, calls>>

\* the argument of delay() in line 264, doubled
PollDelayTwice == 1 + 1

\* the argument of delay() in line 264
PollDelay == 1

\* line 264: delay(1), then back to the loop condition; the delay ends the pass
\* that the last read began
TxDelay ==
  /\ pc = "tx_delay"
  /\ clock' = Add32(clock, PollDelay)
  /\ elapsed' = elapsed + PollDelay
  /\ pollLog' = <<DelayEv(PollDelay)>>
  /\ LET last == loop[Len(loop)]
     IN  loop' = Record(SubSeq(loop, 1, Len(loop) - 1),
                        Delay(MachineWith(last.log, <<>>), PollDelay).log, last.txns)
  /\ pc' = "tx_poll"
  /\ UNCHANGED <<regs, irqFlags, chip, cs, log, txns, lastRssi, lastSnr, currentFreq,
                 startTime, polls, sawDone, op, arg, ret, buffer, pre, inp, calls>>

\* the environment: the chip, in Transmit mode, finishes sending and raises TX-done
ChipTxDone ==
  /\ regs[REG_OP_MODE] = BitOr(MODE_LONG_RANGE_MODE, MODE_TX)
  /\ ~HasFlag(irqFlags, IRQ_TX_DONE_MASK)
  /\ irqFlags' = BitOr(irqFlags, IRQ_TX_DONE_MASK)
  /\ UNCHANGED <<regs, chip, cs, log, txns, loop, clock, lastRssi, lastSnr, currentFreq,
                 op, arg, ret, buffer, pre, inp, calls>>
  /\ UNCHANGED txVars

----------------------------------------------------------------------------
(* check_for_msg: lines 298-343.                                           *)

\* lines 328-333 with the digitalWrite(LORA_CS_PIN, HIGH) of line 333 left out
FifoReadHoldsSelect(m, n) ==
  LET ptr == FifoPtr(m)
      bytes == [i \in 1 .. n |-> RxByte(U8(ptr + i - 1))]
  IN  [m EXCEPT
         !.cs = LOW,
         !.regs[REG_FIFO_ADDR_PTR] = U8(ptr + n),
         !.log = @ \o <<PinEv(LORA_CS_PIN, LOW), XferEv(BitAnd(REG_FIFO, 127), 0)>>
                   \o [i \in 1 .. n |-> XferEv(0, bytes[i])],
         !.txns = Append(@, [rw |-> "R", addr |-> REG_FIFO, data |-> bytes])]

\* lines 328-333: one select frame carrying the address byte and n zero bytes, whose
\* replies are the FIFO bytes from the FIFO pointer on
FifoRead(m, n) ==
  LET ptr == FifoPtr(m)
      bytes == [i \in 1 .. n |-> RxByte(U8(ptr + i - 1))]
  IN  [m EXCEPT
         !.cs = HIGH,
         !.regs[REG_FIFO_ADDR_PTR] = U8(ptr + n),
         !.log = @ \o <<PinEv(LORA_CS_PIN, LOW), XferEv(BitAnd(REG_FIFO, 127), 0)>>
                   \o [i \in 1 .. n |-> XferEv(0, bytes[i])]
                   \o <<PinEv(LORA_CS_PIN, HIGH)>>,
         !.txns = Append(@, [rw |-> "R", addr |-> REG_FIFO, data |-> bytes])]

\* lines 318-321 without the truncation
PacketLengthUnclamped(nbBytes, maxLength) == nbBytes

\* lines 318-321: the length read, truncated to the buffer
PacketLength(nbBytes, maxLength) == IF nbBytes > maxLength THEN maxLength ELSE nbBytes

\* line 338 with the boundary on the wrong side
RssiOffsetOffByOne(freq) == IF freq <= 525 THEN 164 ELSE 157

\* line 338
RssiOffset(freq) == IF freq < 525 THEN 164 ELSE 157

\* line 340: (int8_t)raw / 4
Snr(raw) == CDiv(I8(raw), 4)

\* line 311 testing the bit next to the CRC-error bit
CrcErrorWrongBit(flags) == HasFlag(flags, 16)

\* line 311
CrcError(flags) == HasFlag(flags, IRQ_PAYLOAD_CRC_ERROR)

\* line 303 taking any pending flag for a packet
PacketPendingAnyFlag(flags) == flags # 0

\* line 303
PacketPending(flags) == HasFlag(flags, IRQ_RX_DONE_MASK)

\* lines 317-340 preceded by a return to standby
ReadPacketFromStandby(m, maxLength) ==
  LET m0 == write_lora_register(m, REG_OP_MODE, BitOr(MODE_LONG_RANGE_MODE, MODE_STDBY))
      m1 == read_lora_register(m0, REG_RX_NB_BYTES)
      packetLength == PacketLength(LastValue(m1), maxLength)
      m2 == read_lora_register(m1, REG_FIFO_RX_CURRENT_ADDR)
      m3 == write_lora_register(m2, REG_FIFO_ADDR_PTR, LastValue(m2))
      m4 == FifoRead(m3, packetLength)
      m5 == read_lora_register(m4, REG_PKT_RSSI_VALUE)
  IN  read_lora_register(m5, REG_PKT_SNR_VALUE)

\* lines 317-340, once RX-done has been found set and CRC-error clear
ReadPacket(m, maxLength) ==
  LET m1 == read_lora_register(m, REG_RX_NB_BYTES)
      packetLength == PacketLength(LastValue(m1), maxLength)
      m2 == read_lora_register(m1, REG_FIFO_RX_CURRENT_ADDR)
      m3 == write_lora_register(m2, REG_FIFO_ADDR_PTR, LastValue(m2))
      m4 == FifoRead(m3, packetLength)
      m5 == read_lora_register(m4, REG_PKT_RSSI_VALUE)
  IN  read_lora_register(m5, REG_PKT_SNR_VALUE)

check_for_msg(maxLength) ==
  /\ Enter("check_for_msg", <<maxLength>>)
  /\ LET m1 == read_lora_register(Machine, REG_IRQ_FLAGS)
         irq == LastValue(m1)
         m2 == write_lora_register(m1, REG_IRQ_FLAGS, IRQ_RX_DONE_MASK)
     IN  IF ~PacketPending(irq)
           THEN /\ Commit(m1)
                /\ ret' = RetInt(0)
                /\ buffer' = <<>>
                /\ UNCHANGED <<lastRssi, lastSnr>>
         ELSE IF CrcError(irq)
           THEN /\ Commit(write_lora_register(m2, REG_IRQ_FLAGS, IRQ_PAYLOAD_CRC_ERROR))
                /\ ret' = RetInt(-1)
                /\ buffer' = <<>>
                /\ UNCHANGED <<lastRssi, lastSnr>>
         ELSE \E m9 \in {ReadPacket(m2, maxLength)} :
                LET n == Len(m9.txns)
                    burst == m9.txns[n - 2].data
                IN  /\ Commit(m9)
                    /\ buffer' = [i \in 1 .. Len(burst) |-> <<i - 1, burst[i]>>]
                    /\ lastRssi' = m9.txns[n - 1].data[1] - RssiOffset(currentFreq)
                    /\ lastSnr' = Snr(m9.txns[n].data[1])
                    /\ ret' = RetInt(Len(burst))
  /\ UNCHANGED <<chip, currentFreq, inp, clock>>
  /\ UNCHANGED txVars

\* the environment: the chip, in continuous receive mode, has received something (n
\* bytes at FIFO address a) and raises the flags fl: RX-done with or without
\* CRC-error and valid-header, or a flag that comes without RX-done (RX timeout,
\* valid header, CAD)
ChipRxDone(n, a, rssi, snr, seed, fl) ==
  /\ pc = "idle"
  /\ fl # 0
  /\ regs[REG_OP_MODE] = BitOr(MODE_LONG_RANGE_MODE, MODE_RX_CONTINUOUS)
  /\ chip' = [chip EXCEPT !.rxNb = n, !.rxAddr = a, !.rssi = rssi, !.snr = snr,
                          !.seed = seed]
  /\ irqFlags' = BitOr(irqFlags, fl)
  /\ UNCHANGED <<regs, cs, log, txns, loop, clock, lastRssi, lastSnr, currentFreq,
                 op, arg, ret, buffer, pre, inp, calls>>
  /\ UNCHANGED txVars

----------------------------------------------------------------------------
(* The other operations: lines 352-453.                                    *)

\* a void call that also resets the stored signal values
VoidClearsSignal ==
  /\ ret' = VoidReturn
  /\ lastRssi' = 0
  /\ lastSnr' = 0
  /\ UNCHANGED <<chip, currentFreq, buffer, inp, clock>>
  /\ UNCHANGED txVars

\* the part of the state a call without a loop, a buffer or a result leaves alone
Void ==
  /\ ret' = VoidReturn
  /\ UNCHANGED <<chip, lastRssi, lastSnr, currentFreq, buffer, inp, clock>>
  /\ UNCHANGED txVars

\* lines 352-364 without the clearing of the flags
StartListeningKeepsFlags ==
  /\ Enter("start_listening", <<>>)
  /\ Commit(WriteAll(Machine,
        << <<REG_OP_MODE, BitOr(MODE_LONG_RANGE_MODE, MODE_STDBY)>>,
           <<REG_FIFO_ADDR_PTR, 0>>,
           <<REG_OP_MODE, BitOr(MODE_LONG_RANGE_MODE, MODE_RX_CONTINUOUS)>> >>))
  /\ Void

start_listening ==
  /\ Enter("start_listening", <<>>)
  /\ Commit(WriteAll(Machine,
        << <<REG_OP_MODE, BitOr(MODE_LONG_RANGE_MODE, MODE_STDBY)>>,
           <<REG_IRQ_FLAGS, 255>>,
           <<REG_FIFO_ADDR_PTR, 0>>,
           <<REG_OP_MODE, BitOr(MODE_LONG_RANGE_MODE, MODE_RX_CONTINUOUS)>> >>))
  /\ Void

go_to_sleep ==
  /\ Enter("go_to_sleep", <<>>)
  /\ Commit(write_lora_register(Machine, REG_OP_MODE,
                                BitOr(MODE_LONG_RANGE_MODE, MODE_SLEEP)))
  /\ Void

wake_up_lora ==
  /\ Enter("wake_up_lora", <<>>)
  /\ Commit(Delay(write_lora_register(Machine, REG_OP_MODE,
                                      BitOr(MODE_LONG_RANGE_MODE, MODE_STDBY)), 10))
  /\ Void

\* lines 433-434 with the upper limit forgotten
ClampPowerLowOnly(power_dbm) == IF power_dbm < 2 THEN 2 ELSE power_dbm

\* lines 433-434
ClampPower(power_dbm) ==
  LET p == IF power_dbm < 2 THEN 2 ELSE power_dbm
  IN  IF p > 17 THEN 17 ELSE p

\* the value of line 436: (uint8_t)(PA_BOOST | (power_dbm - 2)), for power_dbm >= 2
PaConfig(power_dbm) == U8(BitOr(PA_BOOST, power_dbm - 2))

set_tx_power(power_dbm) ==
  /\ Enter("set_tx_power", <<power_dbm>>)
  /\ Commit(write_lora_register(Machine, REG_PA_CONFIG, PaConfig(ClampPower(power_dbm))))
  /\ Void

set_network_id(sync_word) ==
  /\ Enter("set_network_id", <<sync_word>>)
  /\ Commit(write_lora_register(Machine, REG_SYNC_WORD, sync_word))
  /\ Void

\* lines 97-102 called by the application itself, which the header lets it do, with
\* any uint8_t address
call_write_lora_register(address, value) ==
  /\ Enter("write_lora_register", <<address, value>>)
  /\ Commit(write_lora_register(Machine, address, value))
  /\ Void

\* lines 113-119 called by the application itself, with any uint8_t address
call_read_lora_register(address) ==
  /\ Enter("read_lora_register", <<address>>)
  /\ \E m \in {read_lora_register(Machine, address)} :
       /\ Commit(m)
       /\ ret' = RetInt(LastValue(m))
  /\ UNCHANGED <<chip, lastRssi, lastSnr, currentFreq, buffer, inp, clock>>
  /\ UNCHANGED txVars

get_signal_strength ==
  /\ Enter("get_signal_strength", <<>>)
  /\ Commit(Machine)
  /\ ret' = RetInt(lastRssi)
  /\ UNCHANGED <<chip, lastRssi, lastSnr, currentFreq, buffer, inp, clock>>
  /\ UNCHANGED txVars

get_signal_quality ==
  /\ Enter("get_signal_quality", <<>>)
  /\ Commit(Machine)
  /\ ret' = RetInt(lastSnr)
  /\ UNCHANGED <<chip, lastRssi, lastSnr, currentFreq, buffer, inp, clock>>
  /\ UNCHANGED txVars

\* the environment: the module is plugged, unplugged or replaced, so that the
\* identity register reads another value from now on; between two calls or during
\* a wait of setup_ourlora, the one call that reads the register
ChipVersion(v) ==
  /\ pc \in {"idle", "init_reset", "init_settle", "init_sleep"}
  /\ chip.version # v
  /\ chip' = [chip EXCEPT !.version = v]
  /\ UNCHANGED <<regs, irqFlags, cs, log, txns, loop, clock, lastRssi, lastSnr, currentFreq,
                 op, arg, ret, buffer, pre, inp, calls>>
  /\ UNCHANGED txVars

----------------------------------------------------------------------------
(* The state after construction: lines 82-84, a chip that was never        *)
(* written, an idle caller.                                                *)

Start(c, i) ==
  /\ regs = [a \in CfgRegs |-> NotWritten]
  /\ irqFlags = 0
  /\ chip = [version |-> c.version, lna |-> c.lna, rxNb |-> c.rxNb, rxAddr |-> c.rxAddr,
             rssi |-> c.rssi, snr |-> c.snr, seed |-> c.seed]
  /\ cs = HIGH
  /\ log = <<>>
  /\ txns = <<>>
  /\ loop = <<>>
  /\ clock = Zero32
  /\ lastRssi = 0
  /\ lastSnr = 0
  /\ currentFreq = i.freq0
  /\ pc = "idle"
  /\ startTime = Zero32
  /\ elapsed = 0
  /\ polls = 0
  /\ sawDone = FALSE
  /\ pollLog = <<>>
  /\ op = "none"
  /\ arg = <<>>
  /\ ret = NoReturn
  /\ buffer = <<>>
  /\ pre = [regs |-> [a \in CfgRegs |-> NotWritten], irq |-> 0, lastRssi |-> 0,
            lastSnr |-> 0, currentFreq |-> i.freq0, chip |-> chip]
  /\ inp = i
  /\ calls = 0

\* a chip with nothing received and no flag pending
QuietChip == [version |-> 18, lna |-> 32, rxNb |-> 0, rxAddr |-> 0, rssi |-> 0, snr |-> 0,
              seed |-> 0]

----------------------------------------------------------------------------
(* Initialization alone: every identity value, every valid frequency.      *)

\* the frequencies the check covers, in MHz: the band of the SX1276/77/78/79
FreqLo == 137
FreqHi == 1020

InitInputs ==
  {[freq0 |-> 0, freqs |-> {433, 868}, version |-> v, lna |-> 32] : v \in Byte}
  \cup
  {[freq0 |-> 0, freqs |-> {f}, version |-> 18, lna |-> 192] : f \in FreqLo .. FreqHi}
  \cup
  {[freq0 |-> 0, freqs |-> {915}, version |-> 18, lna |-> g] : g \in Byte}

InitInit ==
  \E i \in InitInputs :
    Start([QuietChip EXCEPT !.version = i.version, !.lna = i.lna], i)

NextInit ==
  \/ \E f \in inp.freqs : setup_ourlora(f)
  \/ SetupStep
  \/ \E v \in {inp.version, 18} : ChipVersion(v)

SpecInit == InitInit /\ [][NextInit]_vars

----------------------------------------------------------------------------
(* Transmission alone: an initialisation, then send_a_msg and its polling  *)
(* loop against a chip that finishes at any moment or never.               *)

\* calls of send_a_msg one behaviour makes
MaxSends == 2

\* a clock that wraps during the 2000 ms of the timeout: 2^32 - 1000
WrapsInTimeout == <<HALF - 1, HALF - 1000>>

\* a payload of n bytes
Payload(n) == [i \in 1 .. n |-> (7 * i) % (UINT8_MAX + 1)]

TxInputs ==
  {[freq0 |-> 0, freq |-> 433, now |-> Zero32, msg |-> Payload(0), len |-> 0],
   [freq0 |-> 0, freq |-> 868, now |-> WrapsInTimeout, msg |-> Payload(3), len |-> 2]}

InitTx == \E i \in TxInputs : Start(QuietChip, i)

NextTx ==
  \/ calls = 0 /\ setup_ourlora(inp.freq)
  \/ SetupStep
  \/ calls \in 1 .. MaxSends /\ send_a_msg(inp.now, inp.msg, inp.len)
  \/ TxPoll
  \/ TxDelay
  \/ TxReturn
  \/ ChipTxDone

SpecTx == InitTx /\ [][NextTx]_vars

----------------------------------------------------------------------------
(* Transmission of every length: an initialisation, then one send_a_msg of *)
(* a payload of 0 .. 255 bytes, the chip ending the transmission before    *)
(* the flags have been read MaxDonePolls times, or never.                  *)

\* in SpecLen and Spec the chip ends a transmission before the flags have been read
\* MaxDonePolls times, or never; SpecTx lets it end at any moment, and so does
\* SpecFair during the first call
MaxDonePolls == 2

LenInputs ==
  {[freq0 |-> 0, freq |-> 433, now |-> Zero32, msg |-> Payload(n), len |-> n] : n \in Byte}

InitLen == \E i \in LenInputs : Start(QuietChip, i)

NextLen ==
  \/ calls = 0 /\ setup_ourlora(inp.freq)
  \/ SetupStep
  \/ calls = 1 /\ send_a_msg(inp.now, inp.msg, inp.len)
  \/ TxPoll
  \/ TxDelay
  \/ TxReturn
  \/ polls < MaxDonePolls /\ ChipTxDone

SpecLen == InitLen /\ [][NextLen]_vars

----------------------------------------------------------------------------
(* Reception alone: an initialisation, start_listening, one chip event,    *)
(* then check_for_msg.                                                     *)

RxInput(cap, freq, ns, as, rssis, snrs, fls) ==
  [freq0 |-> 0, freq |-> freq, cap |-> cap, ns |-> ns, as |-> as, rssis |-> rssis,
   snrs |-> snrs, fls |-> fls]

RxInputs ==
  \* every length against every capacity, the FIFO address wrapping
  {RxInput(c, 433, Byte, {200}, {100}, {40}, {64}) : c \in Byte}
  \cup
  \* every combination of flags
  {RxInput(8, 868, {5}, {0}, {100}, {40}, Byte \ {0})}
  \cup
  \* every raw RSSI at the frequencies around the boundary, every raw SNR
  {RxInput(8, f, {3}, {0}, Byte, {40}, {64, 80}) : f \in {433, 524, 525, 868}}
  \cup
  {RxInput(50, 915, {200}, {0}, {100}, Byte, {64})}

InitRx == \E i \in RxInputs : Start(QuietChip, i)

NextRx ==
  \/ calls = 0 /\ setup_ourlora(inp.freq)
  \/ SetupStep
  \/ calls = 1 /\ start_listening
  \/ /\ calls = 2
     /\ irqFlags = 0
     /\ \E n \in inp.ns, a \in inp.as, r \in inp.rssis, q \in inp.snrs, fl \in inp.fls :
           ChipRxDone(n, a, r, q, 1, fl)
  \/ calls >= 2 /\ check_for_msg(inp.cap)

SpecRx == InitRx /\ [][NextRx]_vars

----------------------------------------------------------------------------
(* The configuration calls alone.                                          *)

\* set_tx_power is checked for -DbmSpan .. DbmSpan
DbmSpan == 140

AuxInputs == {[freq0 |-> 0, dbm |-> d, sync |-> U8(d + 256)] : d \in -DbmSpan .. DbmSpan}

InitAux == \E i \in AuxInputs : Start(QuietChip, i)

NextAux ==
  \/ calls = 0 /\ setup_ourlora(433)
  \/ SetupStep
  \/ calls >= 1 /\ set_tx_power(inp.dbm)
  \/ calls >= 1 /\ set_network_id(inp.sync)

SpecAux == InitAux /\ [][NextAux]_vars

----------------------------------------------------------------------------
(* The driver as a whole: one caller making any calls in any order, the    *)
(* chip raising flags in between.                                          *)

Init == Start(QuietChip, [freq0 |-> 0])

Next ==
  \/ setup_ourlora(433)
  \/ SetupStep
  \/ \E v \in {18, 0} : ChipVersion(v)
  \/ calls < MaxSends /\ send_a_msg(WrapsInTimeout, Payload(1), 1)
  \/ TxPoll
  \/ TxDelay
  \/ TxReturn
  \/ polls < MaxDonePolls /\ ChipTxDone
  \/ check_for_msg(2)
  \/ irqFlags = 0 /\ \E fl \in {64, 96, 16} : ChipRxDone(3, 254, 90, 250, 1, fl)
  \/ start_listening
  \/ go_to_sleep
  \/ wake_up_lora
  \/ set_tx_power(20)
  \/ set_network_id(52)
  \/ get_signal_strength
  \/ get_signal_quality
  \/ \E a \in {REG_OP_MODE, REG_OP_MODE + 128} :
       call_write_lora_register(a, BitOr(MODE_LONG_RANGE_MODE, MODE_RX_CONTINUOUS))
  \/ \E a \in {REG_IRQ_FLAGS, REG_OP_MODE + 128, REG_FIFO} : call_read_lora_register(a)

Spec == Init /\ [][Next]_vars

\* the caller goes on: a polling loop that can take its next step takes it, the
\* clock advancing with each delay(1), and so does a setup_ourlora after each of
\* its waits; each of these steps changes pc.  SetupConfigure can be taken exactly
\* when pc = "init_sleep" and leaves that position: its fairness is written with
\* this condition in place of ENABLED
Fairness ==
  /\ WF_pc(TxPoll) /\ WF_pc(TxDelay) /\ WF_pc(TxReturn)
  /\ WF_pc(SetupRelease) /\ WF_pc(SetupIdentify)
  /\ []<>(pc # "init_sleep")

\* API calls one behaviour of the fair specification makes
MaxFairCalls == 1

\* the driver as a whole, a call being made only while fewer than MaxFairCalls
\* were; the chip ends the transmission of the first call at any moment, and that of
\* a later call as in Next
NextFair == (Next \/ (calls = 1 /\ ChipTxDone)) /\ (calls' > calls => calls < MaxFairCalls)

SpecFair == Init /\ [][NextFair]_vars /\ Fairness

----------------------------------------------------------------------------
(* Views of the log.                                                       *)

IsWrite(t) == t.rw = "W"
IsRead(t) == t.rw = "R"
RegWrites(ts) == SelectSeq(ts, IsWrite)
RegReads(ts) == SelectSeq(ts, IsRead)

\* the transactions of ts on the registers of the set A, in order
Only(ts, A) == LET In(t) == t.addr \in A IN SelectSeq(ts, In)

----------------------------------------------------------------------------
(* Claims on setup_ourlora.                                                *)

\* the value the identity read of line 156 returned to the setup_ourlora that has
\* returned
IdentityRead == CallTxns[1].data[1]

\* C7: whenever the identity register reads a value other than 0x12 (whatever it
\* held when the call began), setup_ourlora returns false, its only register access
\* is the identity read (no write at all), _currentFreq keeps the value it had
\* before the call (0, unset, on a first call), and the chip is left as the reset
\* pulse left it: no register written.  Before the identity read the call has made
\* no register access.
C7_InitFailureLeavesNoTrace ==
  /\ (op = "setup_ourlora" /\ pc \in {"init_reset", "init_settle"}) =>
        (CallTxns = <<>> /\ currentFreq = pre.currentFreq)
  /\ (op = "setup_ourlora" /\ pc = "idle") =>
        /\ CallTxns[1].rw = "R" /\ CallTxns[1].addr = REG_VERSION
        /\ (ret = RetBool(FALSE)) <=> (IdentityRead # 18)
  /\ (op = "setup_ourlora" /\ pc = "idle" /\ IdentityRead # 18) =>
        /\ ret = RetBool(FALSE)
        /\ CallTxns = <<RegRead(REG_VERSION, IdentityRead)>>
        /\ currentFreq = pre.currentFreq
        /\ (calls = 1 => currentFreq = 0)
        /\ \A a \in CfgRegs : regs[a] = NotWritten

\* a failed setup_ourlora after an earlier successful one, the module having been
\* replaced while the call waited: the register read 0x12 when the call began
C7_Witness ==
  /\ op = "setup_ourlora"
  /\ pc = "idle"
  /\ pre.chip.version = 18
  /\ IdentityRead = 34
  /\ ret = RetBool(FALSE)
  /\ pre.currentFreq = 868
  /\ calls = 2

\* round(f * 1000000 * 2^19 / 32000000) = round(f * 2^19 / 32), halves rounded up
FrfExpected(f) == (2 * f * 524288 + 32) \div 64

\* the 24-bit word made of the bytes written to REG_FRF_MSB, _MID, _LSB by the log l
FrfWritten(l) ==
  LET w == Only(RegWrites(l), {REG_FRF_MSB, REG_FRF_MID, REG_FRF_LSB})
  IN  w[1].data[1] * 65536 + w[2].data[1] * 256 + w[3].data[1]

\* C8: for every valid frequency f, the three bytes setup_ourlora writes to
\* registers 0x06, 0x07, 0x08 (in this order) reassemble, MSB first, to
\* round(f * 1000000 * 2^19 / 32000000); the word is greater than the word of
\* f - 1; 433 gives 0x6C4000, 868 gives 0xD90000, 915 gives 0xE4C000.
C8_FrequencyWord ==
  (op = "setup_ourlora" /\ pc = "idle" /\ ret = RetBool(TRUE) /\ arg[1] \in FreqLo .. FreqHi) =>
     LET f == arg[1]
         w == Only(RegWrites(txns), {REG_FRF_MSB, REG_FRF_MID, REG_FRF_LSB})
     IN  /\ Len(w) = 3
         /\ <<w[1].addr, w[2].addr, w[3].addr>> = <<6, 7, 8>>
         /\ \A j \in 1 .. 3 : Len(w[j].data) = 1 /\ w[j].data[1] \in Byte
         /\ FrfWritten(txns) = FrfExpected(f)
         /\ FrfWritten(txns) = Field(Frf(f), 0, 32)
         /\ f > FreqLo => FrfWritten(txns) > Field(Frf(f - 1), 0, 24)
         /\ f = 433 => FrfWritten(txns) = 7094272
         /\ f = 868 => FrfWritten(txns) = 14221312
         /\ f = 915 => FrfWritten(txns) = 14991360

\* setup_ourlora(915) has succeeded
C8_Witness ==
  /\ op = "setup_ourlora"
  /\ ret = RetBool(TRUE)
  /\ arg[1] = 915
  /\ regs[REG_FRF_MSB] = 228
  /\ regs[REG_FRF_MID] = 192
  /\ regs[REG_FRF_LSB] = 0

----------------------------------------------------------------------------
(* Claims on send_a_msg.                                                   *)

\* the transfers of the log l that are replies to a read of the flags register
LastReply(l) == l[Len(l) - 1].b

Bit(v, mask) == (v \div mask) % 2 = 1

\* the values the reads of the flags register made by the call's loop returned
LoopFlagsRead ==
  LET ts == UNION {{loop[i].txns[j] : j \in 1 .. Len(loop[i].txns)} : i \in 1 .. Len(loop)}
  IN  {t.data[1] : t \in {r \in ts : r.rw = "R" /\ r.addr = REG_IRQ_FLAGS}}

\* C1: a send_a_msg that returns returns true or false: true exactly when
\* a read of the flags register made during this call showed TX-done (the last one
\* did), false only when no read did and more than 2000 ms have elapsed since
\* polling started.
C1_TransmitOutcome ==
  (op = "send_a_msg" /\ pc = "tx_ret") =>
     /\ ret \in {RetBool(TRUE), RetBool(FALSE)}
     /\ (ret = RetBool(TRUE)) <=> sawDone
     /\ (ret = RetBool(TRUE)) <=> (\E v \in LoopFlagsRead : Bit(v, 8))
     /\ (ret = RetBool(TRUE)) => Bit(LastReply(pollLog), 8)
     /\ (ret = RetBool(FALSE)) => (~sawDone /\ ~Bit(LastReply(pollLog), 8) /\ elapsed > 2000)

\* a timeout across the wrap of the 32-bit clock
C1_Witness ==
  /\ op = "send_a_msg"
  /\ pc = "tx_ret"
  /\ ret = RetBool(FALSE)
  /\ startTime = WrapsInTimeout
  /\ clock = <<0, 1001>>
  /\ elapsed = 2001

\* the events of one read of the flags register that returned v
FlagsReadEvents(v) ==
  <<PinEv(LORA_CS_PIN, LOW), XferEv(REG_IRQ_FLAGS, 0), XferEv(0, v), PinEv(LORA_CS_PIN, HIGH)>>

\* C2: when no read of the flags register shows TX-done, send_a_msg returns false,
\* after 2002 reads and 2001 ms: what it did from line 259 on is 2001 times a read
\* of the flags register followed by delay(1), then one more read.  At every moment
\* the bus events between a read of the flags register and the next one are exactly
\* one delay(1): each read but the first is preceded by one delay of 1 ms and
\* nothing else.
C2_PollEveryMillisecond ==
  /\ (op = "send_a_msg" /\ pc = "tx_ret" /\ ~sawDone) =>
        /\ ret = RetBool(FALSE) /\ polls = 2002 /\ elapsed = 2001
        /\ loop = <<[log |-> FlagsReadEvents(0) \o <<DelayEv(1)>>,
                      txns |-> <<RegRead(REG_IRQ_FLAGS, 0)>>, n |-> 2001],
                     [log |-> FlagsReadEvents(0),
                      txns |-> <<RegRead(REG_IRQ_FLAGS, 0)>>, n |-> 1]>>
        /\ Len(CallTxns) = 6 + 2002
  /\ (op = "send_a_msg" /\ pc = "tx_poll") =>
        (polls = elapsed /\ pollLog = IF polls = 0 THEN <<>> ELSE <<DelayEv(1)>>)
  /\ (op = "send_a_msg" /\ pc \in {"tx_delay", "tx_ret"}) =>
        /\ polls = elapsed + 1
        /\ pollLog = (IF polls = 1 THEN <<>> ELSE <<DelayEv(1)>>)
                        \o FlagsReadEvents(LastReply(pollLog))

\* the chip never raised TX-done and send_a_msg gave up
C2_Witness ==
  /\ op = "send_a_msg"
  /\ pc = "tx_ret"
  /\ ~sawDone
  /\ irqFlags = 0
  /\ ret = RetBool(FALSE)
  /\ polls = 2002

----------------------------------------------------------------------------
(* Claims on check_for_msg.                                                *)

RxDoneAtEntry == Bit(pre.irq, 64)
CrcErrorAtEntry == Bit(pre.irq, 32)

\* C3: a check_for_msg that reads the flags register with RX-done unset returns 0;
\* its only bus access is that one register read (four bus events: select, address,
\* data, deselect): no register write, no FIFO access, no store into the caller's
\* buffer, _lastRssi and _lastSnr as before, whatever the other flags are.
C3_NoPacketIsOneRead ==
  (op = "check_for_msg" /\ ~RxDoneAtEntry) =>
     /\ ret = RetInt(0)
     /\ txns = <<RegRead(REG_IRQ_FLAGS, pre.irq)>>
     /\ log = FlagsReadEvents(pre.irq)
     /\ buffer = <<>>
     /\ lastRssi = pre.lastRssi
     /\ lastSnr = pre.lastSnr
     /\ regs = pre.regs
     /\ irqFlags = pre.irq

\* a poll that found CRC-error and other flags, but no RX-done
C3_Witness ==
  /\ op = "check_for_msg"
  /\ pre.irq = 32 + 16 + 8
  /\ ret = RetInt(0)

\* C4: a check_for_msg that reads the flags register with RX-done and CRC-error set
\* returns -1, writes the RX-done bit and then the CRC-error bit to the flags
\* register, which clears these two flags and no other, reads neither the byte
\* count, the RX current address nor the FIFO, stores nothing into the caller's
\* buffer and leaves _lastRssi and _lastSnr as they were.
C4_CrcErrorClearsBothFlags ==
  (op = "check_for_msg" /\ RxDoneAtEntry /\ CrcErrorAtEntry) =>
     /\ ret = RetInt(-1)
     /\ txns = <<RegRead(REG_IRQ_FLAGS, pre.irq), RegWrite(REG_IRQ_FLAGS, 64),
                 RegWrite(REG_IRQ_FLAGS, 32)>>
     /\ irqFlags = pre.irq - 64 - 32
     /\ buffer = <<>>
     /\ lastRssi = pre.lastRssi
     /\ lastSnr = pre.lastSnr
     /\ regs = pre.regs

\* a poll that found RX-done, CRC-error and valid-header
C4_Witness ==
  /\ op = "check_for_msg"
  /\ pre.irq = 64 + 32 + 16
  /\ ret = RetInt(-1)
  /\ irqFlags = 16

Min(a, b) == IF a < b THEN a ELSE b

\* C5: a check_for_msg that finds RX-done set and CRC-error clear, with n in the
\* byte-count register and a buffer of capacity c, reads min(n, c) bytes from the
\* FIFO in one burst (one select frame), from the RX current address on, stores
\* them at buffer[0 .. min(n, c) - 1] in order, stores nothing at an index >= c,
\* and returns min(n, c).
C5_TruncatesToCapacity ==
  (op = "check_for_msg" /\ RxDoneAtEntry /\ ~CrcErrorAtEntry) =>
     LET n == pre.chip.rxNb
         c == arg[1]
         k == Min(n, c)
         a == pre.chip.rxAddr
         bytes == [i \in 1 .. k |-> RxByte((a + i - 1) % 256)]
     IN  /\ ret = RetInt(k)
         /\ txns = <<RegRead(REG_IRQ_FLAGS, pre.irq), RegWrite(REG_IRQ_FLAGS, 64),
                     RegRead(REG_RX_NB_BYTES, n), RegRead(REG_FIFO_RX_CURRENT_ADDR, a),
                     RegWrite(REG_FIFO_ADDR_PTR, a),
                     [rw |-> "R", addr |-> REG_FIFO, data |-> bytes],
                     RegRead(REG_PKT_RSSI_VALUE, pre.chip.rssi),
                     RegRead(REG_PKT_SNR_VALUE, pre.chip.snr)>>
         /\ Len(log) = 4 * 7 + 3 + k
         /\ Cardinality({i \in 1 .. Len(log) : log[i] = PinEv(LORA_CS_PIN, LOW)}) = 8
         /\ buffer = [i \in 1 .. k |-> <<i - 1, bytes[i]>>]
         /\ \A i \in 1 .. Len(buffer) : buffer[i][1] < c

\* 200 bytes received, a buffer of 50
C5_Witness ==
  /\ op = "check_for_msg"
  /\ pre.chip.rxNb = 200
  /\ arg[1] = 50
  /\ ret = RetInt(50)
  /\ Len(buffer) = 50

\* C6: the return value of check_for_msg tells its three outcomes apart: it is
\* greater than 0 whenever a packet was received (RX-done set, CRC-error clear), 0
\* only when RX-done was unset (so that no flag was cleared and _lastRssi and
\* _lastSnr were not updated), and -1 only on a CRC error.
C6_ReturnTellsOutcome ==
  op = "check_for_msg" =>
     /\ (RxDoneAtEntry /\ ~CrcErrorAtEntry) => ret.int > 0
     /\ ret = RetInt(0) => (~RxDoneAtEntry /\ RegWrites(txns) = <<>> /\ Len(txns) = 1)
     /\ ret = RetInt(-1) => (RxDoneAtEntry /\ CrcErrorAtEntry)

\* C9: after a check_for_msg that delivered a packet, _lastRssi is the raw RSSI
\* register value minus 164 when the frequency stored by the last successful
\* setup_ourlora is below 525, minus 157 when it is 525 or above.
C9_RssiOffset ==
  (op = "check_for_msg" /\ RxDoneAtEntry /\ ~CrcErrorAtEntry) =>
     /\ currentFreq = inp.freq
     /\ pre.chip.rssi \in Byte
     /\ currentFreq < 525 => lastRssi = pre.chip.rssi - 164
     /\ currentFreq >= 525 => lastRssi = pre.chip.rssi - 157
     /\ currentFreq = 433 => lastRssi = pre.chip.rssi - 164
     /\ currentFreq = 868 => lastRssi = pre.chip.rssi - 157
     /\ currentFreq = 525 => lastRssi = pre.chip.rssi - 157

\* a packet received at exactly 525 MHz
C9_Witness ==
  /\ op = "check_for_msg"
  /\ ret = RetInt(3)
  /\ currentFreq = 525
  /\ pre.chip.rssi = 255
  /\ lastRssi = 98

----------------------------------------------------------------------------
(* Claims on set_tx_power.                                                 *)

\* C10: set_tx_power(dBm) makes exactly one register write, to REG_PA_CONFIG, of
\* 0x80 OR (p - 2), where p is 2 for dBm < 2, 17 for dBm > 17 and dBm otherwise: a
\* value in 0x80 .. 0x8F; 1 is treated as 2, 20 as 17; no input is rejected.
C10_PowerClamped ==
  op = "set_tx_power" =>
     LET dBm == arg[1]
         p == IF dBm < 2 THEN 2 ELSE IF dBm > 17 THEN 17 ELSE dBm
     IN  /\ txns = <<RegWrite(REG_PA_CONFIG, 128 + (p - 2))>>
         /\ Len(log) = 4
         /\ regs[REG_PA_CONFIG] \in 128 .. 143
         /\ dBm = 1 => regs[REG_PA_CONFIG] = 128
         /\ dBm = 20 => regs[REG_PA_CONFIG] = 143
         /\ ret = VoidReturn

\* set_tx_power(20) has written 0x8F
C10_Witness ==
  /\ op = "set_tx_power"
  /\ arg[1] = 20
  /\ regs[REG_PA_CONFIG] = 143

----------------------------------------------------------------------------
(* Claims on the device-select line.                                       *)

IsSelectEv(e) == e.k = "pin" /\ e.a = LORA_CS_PIN

\* the positions of the events of l on the device-select line, in order
SelectIdx(l) ==
  LET OnSelect(i) == IsSelectEv(l[i])
  IN  SelectSeq([i \in 1 .. Len(l) |-> i], OnSelect)

\* the events of l, cut at the events on the device-select line, obey the line's
\* discipline: a stretch that follows a LOW ends with a HIGH (never LOW again, never
\* the end of l), holds transfers only, and these are an address byte and one data
\* byte, or the FIFO address and any number of bytes; a stretch that follows a HIGH,
\* or that begins l, holds no transfer
SelectDiscipline(l) ==
  \E idx \in {SelectIdx(l)} :
    LET k == Len(idx)
        lo(j) == IF j = 0 THEN 0 ELSE idx[j]
        hi(j) == IF j = k THEN Len(l) + 1 ELSE idx[j + 1]
        level(j) == IF j = 0 THEN HIGH ELSE l[idx[j]].b
    IN  \A j \in 0 .. k :
          IF level(j) = LOW
            THEN /\ j < k
                 /\ l[idx[j + 1]].b = HIGH
                 /\ \A t \in lo(j) + 1 .. hi(j) - 1 : l[t].k = "xfer"
                 /\ \/ hi(j) - lo(j) - 1 = 2
                    \/ /\ hi(j) - lo(j) - 1 >= 1
                       /\ l[lo(j) + 1].a \in {BitOr(REG_FIFO, 128), BitAnd(REG_FIFO, 127)}
            ELSE \A t \in lo(j) + 1 .. hi(j) - 1 : l[t].k # "xfer"

\* C11: in any sequence of operations the device-select line is high whenever an
\* operation has returned (and between the bus accesses of send_a_msg's polling
\* loop), every SPI transfer happens while the line is low, the line is never driven
\* low while it is low, and each low period covers exactly one register transaction
\* (address byte and one data byte) or one FIFO burst (address byte and the payload).
\* The line is high from the start here, as line 147 leaves it.  The events of a
\* call are those of log followed by those of the parts of loop: each part leaves
\* the line high, so that the discipline of the whole is that of each part.  While
\* the polling loop runs the log is the one it started with (polls = 0).
C11_SelectDiscipline ==
  /\ cs = HIGH
  /\ (pc \in {"idle", "tx_ret"} \/ polls = 0) => SelectDiscipline(log)
  /\ \A i \in 1 .. Len(loop) : SelectDiscipline(loop[i].log)
  /\ SelectDiscipline(pollLog)
  /\ (op = "send_a_msg" /\ pc = "tx_ret" /\ polls <= 3) => SelectDiscipline(CallLog)

\* after a successful setup_ourlora, a poll has read a packet of two bytes in a burst
C11_Witness ==
  /\ op = "check_for_msg"
  /\ currentFreq = 433
  /\ ret = RetInt(2)
  /\ cs = HIGH
  /\ Len(log) = 4 * 7 + 3 + 2

----------------------------------------------------------------------------
(* Claims on the stored signal values.                                     *)

\* this step is the call of the operation name
Calls(name) == calls' = calls + 1 /\ op' = name

\* this step is a check_for_msg that finds RX-done set and CRC-error clear
DeliversPacket == Calls("check_for_msg") /\ Bit(irqFlags, 64) /\ ~Bit(irqFlags, 32)

C12_Step ==
  /\ (lastRssi' # lastRssi \/ lastSnr' # lastSnr) => DeliversPacket
  /\ DeliversPacket =>
        /\ lastRssi' = chip.rssi - (IF currentFreq < 525 THEN 164 ELSE 157)
        /\ lastSnr' = CDiv(I8(chip.snr), 4)
  /\ Calls("get_signal_strength") =>
        /\ ret' = RetInt(lastRssi)
        /\ log' = <<>> /\ txns' = <<>> /\ loop' = <<>>
        /\ UNCHANGED <<regs, irqFlags, chip, cs, lastRssi, lastSnr, currentFreq, buffer>>
  /\ Calls("get_signal_quality") =>
        /\ ret' = RetInt(lastSnr)
        /\ log' = <<>> /\ txns' = <<>> /\ loop' = <<>>
        /\ UNCHANGED <<regs, irqFlags, chip, cs, lastRssi, lastSnr, currentFreq, buffer>>

\* C12: a step changes _lastRssi or _lastSnr only if it is a check_for_msg that finds
\* RX-done set and CRC-error clear (which stores the values computed from the RSSI
\* and SNR registers); every other operation, a poll without packet and a poll with
\* a CRC error leave them alone.  get_signal_strength and get_signal_quality make no
\* bus access, change nothing and return the stored value, which is therefore the
\* one the most recent delivering poll stored.
C12_SignalFrame == [][C12_Step]_vars

\* get_signal_quality after a delivered packet: raw SNR 250 is -6, a quarter of it -1
C12_Witness ==
  /\ op = "get_signal_quality"
  /\ ret = RetInt(-1)
  /\ lastRssi = 90 - 164
  /\ log = <<>>

----------------------------------------------------------------------------
(* Claims on the operating mode.                                           *)

\* the values written to the operating-mode register by the transactions ts, in order
ModeWrites(ts) ==
  LET w == Only(RegWrites(ts), {REG_OP_MODE})
  IN  [i \in 1 .. Len(w) |-> w[i].data[1]]

Sleep == BitOr(MODE_LONG_RANGE_MODE, MODE_SLEEP)
Standby == BitOr(MODE_LONG_RANGE_MODE, MODE_STDBY)
Transmit == BitOr(MODE_LONG_RANGE_MODE, MODE_TX)
ContinuousReceive == BitOr(MODE_LONG_RANGE_MODE, MODE_RX_CONTINUOUS)

\* C13: check_for_msg writes the operating-mode register on none of its paths (no
\* packet, CRC error, packet delivered): the register holds after the call what it
\* held before it, whatever that was.
C13_PollKeepsMode ==
  op = "check_for_msg" =>
     /\ ModeWrites(txns) = <<>>
     /\ regs[REG_OP_MODE] = pre.regs[REG_OP_MODE]
     /\ ret \in {RetInt(-1), RetInt(0), RetInt(2)}

\* a poll that found a CRC error while listening
C13_Witness ==
  /\ op = "check_for_msg"
  /\ ret = RetInt(-1)
  /\ pre.regs[REG_OP_MODE] = ContinuousReceive
  /\ regs[REG_OP_MODE] = ContinuousReceive

----------------------------------------------------------------------------
(* Claims on the register traffic of send_a_msg.                           *)

\* the bus events of one FIFO burst that writes bytes
BurstWriteEvents(bytes) ==
  <<PinEv(LORA_CS_PIN, LOW), XferEv(128, 0)>>
    \o [i \in 1 .. Len(bytes) |-> XferEv(bytes[i], 0)]
    \o <<PinEv(LORA_CS_PIN, HIGH)>>

\* C14: in every send_a_msg(message, length), 0 <= length <= 255, the register
\* traffic before polling is, in this order: mode := Standby, flags := 0xFF, FIFO
\* pointer := 0, one FIFO burst of exactly message[0 .. length-1], payload length :=
\* length, mode := Transmit, and what follows begins with a read of the flags
\* register; so Transmit is written after the payload length and the mode write
\* before it is Standby.  With length 0 the burst carries the address
\* byte alone, the rest is the same, and the call returns true once TX-done is read.
C14_TransmitSequence ==
  op = "send_a_msg" =>
     LET message == arg[1]
         length == arg[2]
         bytes == [i \in 1 .. length |-> message[i]]
     IN  /\ length \in Byte
         /\ Len(txns) = 6
         /\ loop # <<>> =>
               loop[1].txns \in {<<RegRead(REG_IRQ_FLAGS, 0)>>, <<RegRead(REG_IRQ_FLAGS, 8)>>}
         /\ (pc = "tx_ret" /\ polls <= 3) => SubSeq(CallTxns, 1, 6) = txns
         /\ SubSeq(txns, 1, 6) =
               <<RegWrite(REG_OP_MODE, 129), RegWrite(REG_IRQ_FLAGS, 255),
                 RegWrite(REG_FIFO_ADDR_PTR, 0),
                 [rw |-> "W", addr |-> REG_FIFO, data |-> bytes],
                 RegWrite(REG_PAYLOAD_LENGTH, length), RegWrite(REG_OP_MODE, 131)>>
         /\ Len(log) >= 4 * 5 + 3 + length
         /\ SubSeq(log, 13, 15 + length) = BurstWriteEvents(bytes)
         /\ pc \in {"tx_poll", "tx_delay"} => CallTxnCount = 6 + polls
         /\ (pc = "tx_ret" /\ sawDone) => ret = RetBool(TRUE)

\* a send_a_msg of no byte that returned true
C14_Witness ==
  /\ op = "send_a_msg"
  /\ arg[2] = 0
  /\ pc = "tx_ret"
  /\ ret = RetBool(TRUE)
  /\ txns[4] = [rw |-> "W", addr |-> REG_FIFO, data |-> <<>>]
  /\ regs[REG_PAYLOAD_LENGTH] = 0

\* the last n elements of the sequence q
LastOf(q, n) == SubSeq(q, Len(q) - n + 1, Len(q))

\* C15: a send_a_msg that returned true made as its last two register writes flags :=
\* 0x08 (the TX-done bit alone) and then mode := Standby, and the mode register holds
\* Standby.  A send_a_msg that returned false (timeout) made no register write after
\* mode := Transmit: the mode register still holds Transmit and the only write to
\* the flags register is the 0xFF made before the payload.  A send_a_msg or a
\* start_listening that follows begins by writing Standby to the mode register.
C15_TransmitEndState ==
  /\ (op = "send_a_msg" /\ pc \in {"tx_ret", "idle"} /\ ret = RetBool(TRUE)) =>
        \E ts \in {CallTxns} :
          /\ LastOf(ts, 2) = <<RegWrite(REG_IRQ_FLAGS, 8), RegWrite(REG_OP_MODE, 129)>>
          /\ LastOf(RegWrites(ts), 3)[1] = RegWrite(REG_OP_MODE, 131)
          /\ Len(RegWrites(ts)) = 8
          /\ regs[REG_OP_MODE] = Standby
  /\ (op = "send_a_msg" /\ pc \in {"tx_ret", "idle"} /\ ret = RetBool(FALSE)) =>
        \E ts \in {CallTxns} :
          /\ Len(ts) = 6 + 2002
          /\ ts[6] = RegWrite(REG_OP_MODE, 131)
          /\ Len(RegWrites(ts)) = 6
          /\ \A i \in 7 .. Len(ts) : IsRead(ts[i])
          /\ Only(RegWrites(ts), {REG_IRQ_FLAGS}) = <<RegWrite(REG_IRQ_FLAGS, 255)>>
          /\ regs[REG_OP_MODE] = Transmit
  /\ op \in {"send_a_msg", "start_listening"} => txns[1] = RegWrite(REG_OP_MODE, 129)

\* start_listening after a send_a_msg that timed out
C15_Witness ==
  /\ op = "start_listening"
  /\ pre.regs[REG_OP_MODE] = Transmit
  /\ txns[1] = RegWrite(REG_OP_MODE, Standby)
  /\ regs[REG_OP_MODE] = ContinuousReceive

----------------------------------------------------------------------------
(* Claims on the order of setup_ourlora's writes.                          *)

\* the positions in ts of the writes to the registers of the set A
WritePositions(ts, A) == {i \in 1 .. Len(ts) : IsWrite(ts[i]) /\ ts[i].addr \in A}

\* C16: whenever the identity register reads 0x12 (whatever it held when the call
\* began and whatever it holds later), setup_ourlora returns true; its
\* first write sets the mode to Sleep, before the three frequency registers are
\* written; the only other mode write is its last register access, which sets the
\* mode to Standby, so that no mode write lies between the Sleep write and the last
\* configuration write; the LNA register is read once and written once, right
\* after, with the value read OR 0x03.
C16_InitOrder ==
  (op = "setup_ourlora" /\ pc = "idle" /\ IdentityRead = 18) =>
     LET n == Len(txns)
         g == pre.chip.lna
         lnaAt == WritePositions(txns, {REG_LNA})
     IN  /\ ret = RetBool(TRUE)
         /\ WritePositions(txns, {REG_OP_MODE}) = {2, n}
         /\ WritePositions(txns, {REG_FRF_MSB, REG_FRF_MID, REG_FRF_LSB}) = {3, 4, 5}
         /\ txns[2] = RegWrite(REG_OP_MODE, 128)
         /\ txns[n] = RegWrite(REG_OP_MODE, 129)
         /\ regs[REG_OP_MODE] = Standby
         /\ WritePositions(txns, CfgRegs \ {REG_OP_MODE}) = 3 .. n - 1 \ {8}
         /\ lnaAt = {9}
         /\ txns[8] = RegRead(REG_LNA, g)
         /\ txns[9] = RegWrite(REG_LNA, g - (g % 4) + 3)
         /\ Only(RegReads(txns), {REG_LNA}) = <<RegRead(REG_LNA, g)>>

\* a successful setup_ourlora on a chip whose LNA register read 0x21
C16_Witness ==
  /\ op = "setup_ourlora"
  /\ pc = "idle"
  /\ ret = RetBool(TRUE)
  /\ pre.chip.lna = 33
  /\ regs[REG_LNA] = 35
  /\ regs[REG_OP_MODE] = Standby

----------------------------------------------------------------------------
(* Claims on start_listening.                                              *)

C17_Step ==
  Calls("start_listening") =>
     /\ txns' = <<RegWrite(REG_OP_MODE, 129), RegWrite(REG_IRQ_FLAGS, 255),
                  RegWrite(REG_FIFO_ADDR_PTR, 0), RegWrite(REG_OP_MODE, 133)>>
     /\ regs' = [regs EXCEPT ![REG_OP_MODE] = ContinuousReceive, ![REG_FIFO_ADDR_PTR] = 0]
     /\ irqFlags' = 0
     /\ UNCHANGED <<lastRssi, lastSnr, currentFreq, chip, buffer>>
     /\ (op = "start_listening" /\ irqFlags = 0) => UNCHANGED <<regs, irqFlags, cs>>

\* C17: start_listening makes exactly the writes mode := Standby, flags := 0xFF, FIFO
\* pointer := 0, mode := ContinuousReceive, in this order, whatever the mode was; it
\* leaves the mode, flags and FIFO-pointer registers at ContinuousReceive, 0 and 0
\* and the stored RSSI, SNR and frequency as they were, so that a second call, made
\* when the last call was start_listening and the chip has raised no flag since,
\* changes no register, no flag and no stored value.
C17_StartListeningIdempotent == [][C17_Step]_vars

\* start_listening called twice in a row
C17_Witness ==
  /\ op = "start_listening"
  /\ calls = 2
  /\ pre.regs[REG_OP_MODE] = ContinuousReceive
  /\ pre.irq = 0
  /\ regs = pre.regs
  /\ irqFlags = 0

----------------------------------------------------------------------------
(* Claims on termination.                                                  *)

\* the numbers of register transactions an operation that has returned can have made
TransactionCounts(name) ==
  CASE name = "setup_ourlora" -> {1, 18}
    [] name = "check_for_msg" -> {1, 3, 8}
    [] name = "start_listening" -> {4}
    [] name \in {"go_to_sleep", "wake_up_lora", "set_tx_power", "set_network_id"} -> {1}
    [] name \in {"write_lora_register", "read_lora_register"} -> {1}
    [] name \in {"get_signal_strength", "get_signal_quality"} -> {0}
    [] name = "send_a_msg" ->
         {n \in Nat : n - 6 \in 1 .. 2002 \/ n - (6 + 2) \in 1 .. 2002}
    [] OTHER -> {0}

\* every operation but setup_ourlora and send_a_msg is over as soon as it is called;
\* every operation that has returned has made one of a fixed set of numbers of
\* register transactions; setup_ourlora, while it runs, has made at most two, and
\* send_a_msg six, its reads of the flags register, at most 2002, and after the last
\* of them two more when it returns true
C18_Bounded ==
  /\ op \notin {"send_a_msg", "setup_ourlora"} => pc = "idle"
  /\ op = "setup_ourlora" => pc \in {"idle", "init_reset", "init_settle", "init_sleep"}
  /\ op = "send_a_msg" => pc \in {"idle", "tx_poll", "tx_delay", "tx_ret"}
  /\ pc = "idle" => CallTxnCount \in TransactionCounts(op)
  /\ pc \in {"init_reset", "init_settle", "init_sleep"} => CallTxnCount <= 2
  /\ pc \in {"tx_poll", "tx_delay"} => CallTxnCount = 6 + polls
  /\ pc = "tx_ret" => CallTxnCount = 6 + polls + (IF ret = RetBool(TRUE) THEN 2 ELSE 0)
  /\ polls <= 2002
  /\ elapsed <= 2001

\* C18: every operation terminates.  The operations other than send_a_msg make a
\* fixed number of register transactions and wait for nothing (setup_ourlora makes
\* its four delays and goes on); the polling loop of
\* send_a_msg, as long as the caller runs and the clock advances with each delay(1),
\* always comes to its return, after at most 2002 reads of the flags register,
\* whether the chip raises TX-done at some moment or never.
C18_Terminates == [] C18_Bounded /\ ((pc # "idle") ~> (pc = "idle"))

\* a send_a_msg that returned after the chip raised TX-done half-way
C18_Witness ==
  /\ op = "send_a_msg"
  /\ pc = "tx_ret"
  /\ ret = RetBool(TRUE)
  /\ polls = 1001
  /\ elapsed = 1000

----------------------------------------------------------------------------
(* Claims on continuous receive.                                           *)

\* the elements of the sequence q
Elements(q) == {q[i] : i \in 1 .. Len(q)}

\* the values the current / last API call has written to the operating-mode register
ModesWritten ==
  Elements(ModeWrites(txns))
    \cup UNION {Elements(ModeWrites(loop[i].txns)) : i \in 1 .. Len(loop)}

\* this step is the application writing ContinuousReceive to the operating-mode
\* register itself, through write_lora_register
CallerWritesReceive ==
  /\ Calls("write_lora_register")
  /\ RegOf(arg'[1]) = REG_OP_MODE
  /\ arg'[2] = ContinuousReceive

\* a step of one of the driver's operations brings ContinuousReceive into the mode
\* register only if it is a start_listening; the one step left out is the
\* application writing that value to the mode register itself through
\* write_lora_register (CallerWritesReceive), which is no operation of the driver
C19_Step ==
  /\ ContinuousReceive \in ModesWritten' =>
        \/ op' = "start_listening"
        \/ op' = "write_lora_register" /\ RegOf(arg'[1]) = REG_OP_MODE
                                       /\ arg'[2] = ContinuousReceive
  /\ (regs'[REG_OP_MODE] = ContinuousReceive /\ regs[REG_OP_MODE] # ContinuousReceive)
        => (Calls("start_listening") \/ CallerWritesReceive)
  /\ op' \in {"setup_ourlora", "send_a_msg", "go_to_sleep", "wake_up_lora"}
        => regs'[REG_OP_MODE] # ContinuousReceive
  /\ Calls("read_lora_register") => regs'[REG_OP_MODE] = regs[REG_OP_MODE]

\* C19: the only operation of the driver that writes ContinuousReceive to the mode
\* register is start_listening: in every sequence of calls, the register comes to
\* hold ContinuousReceive only in a step that calls start_listening (or in which
\* the application writes it there itself, bypassing the operations).  After
\* setup_ourlora (successful or not), send_a_msg (at every point of it, success and
\* timeout included), go_to_sleep and wake_up_lora the register does not hold
\* ContinuousReceive, and it stays so until start_listening is called: a send_a_msg
\* issued while listening ends reception, and the driver never resumes it by itself.
C19_OnlyStartListeningReceives == [][C19_Step]_vars

\* a send_a_msg issued while listening has returned true: the mode is Standby
C19_Witness ==
  /\ op = "send_a_msg"
  /\ pc = "idle"
  /\ ret = RetBool(TRUE)
  /\ pre.regs[REG_OP_MODE] = ContinuousReceive
  /\ regs[REG_OP_MODE] = Standby

----------------------------------------------------------------------------
(* Claims on the reporting of received packets.                            *)

\* the values written to the flags register by the transactions ts, in order
FlagWrites(ts) ==
  LET w == Only(RegWrites(ts), {REG_IRQ_FLAGS})
  IN  [i \in 1 .. Len(w) |-> w[i].data[1]]

C20_Step ==
  Calls("check_for_msg") =>
     LET rxDone == Bit(irqFlags, 64)
         crcError == Bit(irqFlags, 32)
     IN  /\ ~Bit(irqFlags', 64)
         /\ ~rxDone =>
               /\ ret' = RetInt(0)
               /\ FlagWrites(txns') = <<>>
               /\ irqFlags' = irqFlags
         /\ (rxDone /\ crcError) =>
               /\ ret' = RetInt(-1)
               /\ FlagWrites(txns') = <<64, 32>>
               /\ irqFlags' = irqFlags - 64 - 32
         /\ (rxDone /\ ~crcError) =>
               /\ ret' = RetInt(Min(chip.rxNb, arg'[1]))
               /\ FlagWrites(txns') = <<64>>
               /\ irqFlags' = irqFlags - 64
         /\ (op = "check_for_msg" /\ ~rxDone) => ret' = RetInt(0)

\* C20: with flags that are cleared by writing 1 to them, every check_for_msg
\* leaves RX-done clear: one that finds it set clears it (and CRC-error too when it
\* returns -1), so that a later check_for_msg finds it clear, and returns 0, unless
\* the chip has set it again; each RX-done is so reported by at most one call.  A
\* check_for_msg that delivers a packet writes 0x40 to the flags register and
\* nothing else: every other pending flag is still pending after it.
C20_ReportedOnce == [][C20_Step]_vars

\* a second poll returned 0 after the first delivered the packet; valid-header is
\* still pending
C20_Witness ==
  /\ op = "check_for_msg"
  /\ calls = 4
  /\ ret = RetInt(0)
  /\ pre.irq = 16
  /\ irqFlags = 16
  /\ lastRssi = 100 - 157
  /\ Len(txns) = 1

====
